---- MODULE Spec2Model ----
(***************************************************************************)
(* The sequencer demo of 02-async/src/index.js:                            *)
(*                                                                         *)
(*     Q.fcall(begin).then(incrementAsync).then(incrementAsync)            *)
(*                   .then(incrementAsync).then(end);                      *)
(*                                                                         *)
(* run on a single-threaded event loop.  The state is the console, the     *)
(* position of the unit of work that is executing (one source line per     *)
(* step), the timer queue of setTimeout, the tick queue of the promise     *)
(* library, the deferreds the library has created and the closures of the  *)
(* incrementAsync invocations.  The promise library Q is not part of the   *)
(* repository; it is modelled by what its calls do (defer, resolve, then,  *)
(* fcall): a handler is never called synchronously, always from the tick   *)
(* queue, and the event loop is free to pick a queued tick or a due timer. *)
(*                                                                         *)
(* Every variable is indexed by a run of the script, so that two           *)
(* executions can be stepped side by side.                                 *)
(*                                                                         *)
(* The snippets of the two posts (each, the asyncEach attempts,            *)
(* asyncLogItem) run on the same event loop: prog is the snippet and its   *)
(* input array, invs also holds the scopes their closures keep alive.      *)
(***************************************************************************)
EXTENDS Integers, Sequences, FiniteSets, TLC

VARIABLES prog, out, pc, timers, tasks, deferreds, invs, turn, hist, flush

vars == <<prog, out, pc, timers, tasks, deferreds, invs, turn, hist, flush>>

\* The executions of the script that are stepped: Spec steps the first one,
\* SpecPair both.
Runs == {1, 2}

(***************************************************************************)
(* JavaScript values, as far as the script has any.                        *)
(***************************************************************************)
Val(kind, n, fn) == [kind |-> kind, n |-> n, fn |-> fn]
Undefined == Val("undefined", 0, "")
NaN == Val("NaN", 0, "")
Num(n) == Val("number", n, "")
Fn(name) == Val("function", 0, name)
\* the promise of the deferred with index id
PromiseOf(id) == Val("promise", id, "")

\* (a variant that leaves i as it is)
MutPostIncrement(v) == IF v.kind = "number" THEN Num(v.n) ELSE NaN

\* i++ on the closure variable i (index.js:14)
PostIncrement(v) == IF v.kind = "number" THEN Num(v.n + 1) ELSE NaN

\* (a variant that prints a number one too high)
MutConsoleLine(v) ==
    CASE v.kind = "number" -> ToString(v.n + 1)
      [] v.kind = "string" -> v.fn
      [] OTHER -> v.kind

\* the line console.log prints for a value (index.js:3, 8, 15)
ConsoleLine(v) ==
    CASE v.kind = "number" -> ToString(v.n)
      [] v.kind = "string" -> v.fn
      [] v.kind = "function" -> "[Function: " \o v.fn \o "]"
      [] v.kind = "promise" -> "[object Object]"
      [] OTHER -> v.kind

Str(s) == Val("string", 0, s)

(***************************************************************************)
(* The chain of index.js:22-26: the function given to Q.fcall and the      *)
(* handlers given to the successive .then calls.                           *)
(***************************************************************************)
First == "begin"

\* (a variant with one .then(incrementAsync) missing)
MutHandlers == <<"incrementAsync", "incrementAsync", "end">>
Handlers == <<"incrementAsync", "incrementAsync", "incrementAsync", "end">>

\* first line of a function's body
Entry(fn) ==
    CASE fn = "begin" -> "L3"
      [] fn = "end" -> "L8"
      [] fn = "incrementAsync" -> "L12"

(***************************************************************************)
(* Positions.  at is "idle" when the event loop has control, "main" while  *)
(* the script's own statement runs (k links of the chain made, d the       *)
(* deferred of the promise the next .then is called on), "L<n>" at line n  *)
(* of index.js, "ret" when a handler has returned v to the library, which  *)
(* is about to resolve deferred d with it.  k is the incrementAsync        *)
(* invocation a line belongs to.                                           *)
(***************************************************************************)
At(at, k, d, v) == [at |-> at, k |-> k, d |-> d, v |-> v]
Idle == At("idle", 0, 0, Undefined)

\* A deferred of the library: the messages waiting for it while it is
\* pending, and what it has become once resolved.
NewDeferred == [resolved |-> FALSE, messages |-> <<>>, resolvedPromise |-> Undefined]

\* A message: the operation, the deferred to resolve with its result and the
\* handler that computes the result.
Msg(op, d, fn) == [op |-> op, d |-> d, fn |-> fn]
\* A tick: self.promiseDispatch(msg)
Tick(self, msg) == [self |-> self, msg |-> msg]

\* An entry of the history: what happened (call, return, log, increment,
\* resolve), in which function, for which incrementAsync invocation (0: none),
\* with which value, in which turn of the event loop.
Event(ev, fn, k, v, t) == [ev |-> ev, fn |-> fn, k |-> k, v |-> v, turn |-> t]

\* The closure of an incrementAsync invocation: its parameter i and its local
\* variable defer (0 until index.js:12 has run).
Closure(i, d) == [i |-> i, defer |-> d]

\* A program: the snippet it is, the function it calls between its two
\* console.log statements, the callback it passes and the array it passes.
Program(snippet, fn, cb, arr) == [snippet |-> snippet, fn |-> fn, cb |-> cb, arr |-> arr]

\* the script of index.js
Chain == Program("chain", "", "", <<>>)

\* How the library schedules its ticks is not in the repository: either each
\* tick is a task of the event loop of its own ("perTick"), or one task drains
\* the whole queue of ticks, those queued meanwhile included ("idle" between
\* drains, "draining" during one).
FlushModes == {"perTick", "idle"}

Init ==
    /\ prog = [r \in Runs |-> Chain]
    /\ out = [r \in Runs |-> <<>>]
    /\ pc = [r \in Runs |-> At("main", 0, 0, Undefined)]
    /\ timers = [r \in Runs |-> <<>>]
    /\ tasks = [r \in Runs |-> <<>>]
    /\ deferreds = [r \in Runs |-> <<>>]
    /\ invs = [r \in Runs |-> <<>>]
    /\ turn = [r \in Runs |-> 1]
    /\ hist = [r \in Runs |-> <<>>]
    /\ flush \in [Runs -> FlushModes]

\* the turn of the event loop in which the next tick of the library runs: the
\* current one while the library is draining its queue, a new one otherwise
TickTurn(r) == IF flush[r] = "draining" THEN turn[r] ELSE turn[r] + 1

\* a tick has run: a library that drains its queue is now draining it
Ticked(r) ==
    /\ turn' = [turn EXCEPT ![r] = TickTurn(r)]
    /\ flush' = [flush EXCEPT ![r] = IF @ = "perTick" THEN @ ELSE "draining"]

\* The event loop takes a timer only when the library is not in the middle
\* of draining its queue; the drain is over once it does.
TimerDue(r) == ~(flush[r] = "draining" /\ tasks[r] # <<>>)
Drained(r) == flush' = [flush EXCEPT ![r] = IF @ = "draining" THEN "idle" ELSE @]

Log(r, ev, fn, k, v) ==
    hist' = [hist EXCEPT ![r] = Append(@, Event(ev, fn, k, v, turn[r]))]

(***************************************************************************)
(* The script's own statement, index.js:22-26, one call per step.          *)
(***************************************************************************)
\* Q.fcall(begin): a new deferred, and a tick that will apply begin and
\* resolve the deferred with what it returns.
MainFcall(r) ==
    /\ pc[r].at = "main" /\ pc[r].k = 0
    /\ LET d == Len(deferreds[r]) + 1 IN
        /\ deferreds' = [deferreds EXCEPT ![r] = Append(@, NewDeferred)]
        /\ tasks' = [tasks EXCEPT ![r] = Append(@, Tick(Fn(First), Msg("apply", d, "")))]
        /\ pc' = [pc EXCEPT ![r] = At("main", 1, d, Undefined)]
    /\ UNCHANGED <<flush, prog, out, timers, invs, turn, hist>>

\* (a variant that calls every .then on the promise of Q.fcall instead of
\* chaining them)
MutMainThen(r) ==
    /\ pc[r].at = "main" /\ pc[r].k \in 1..Len(Handlers)
    /\ LET d == Len(deferreds[r]) + 1
           j == pc[r].k
       IN
        /\ deferreds' = [deferreds EXCEPT ![r] = Append(@, NewDeferred)]
        /\ tasks' = [tasks EXCEPT ![r] =
                        Append(@, Tick(PromiseOf(1), Msg("when", d, Handlers[j])))]
        /\ pc' = [pc EXCEPT ![r] =
                     IF j = Len(Handlers) THEN Idle ELSE At("main", j + 1, d, Undefined)]
    /\ UNCHANGED <<flush, prog, out, timers, invs, turn, hist>>

\* .then(handler) on the promise of deferred pc.d: a new deferred, and a tick
\* that will dispatch "when" to that promise.  After the last .then the
\* script is finished and the event loop takes over.
MainThen(r) ==
    /\ pc[r].at = "main" /\ pc[r].k \in 1..Len(Handlers)
    /\ LET d == Len(deferreds[r]) + 1
           j == pc[r].k
       IN
        /\ deferreds' = [deferreds EXCEPT ![r] = Append(@, NewDeferred)]
        /\ tasks' = [tasks EXCEPT ![r] =
                        Append(@, Tick(PromiseOf(pc[r].d), Msg("when", d, Handlers[j])))]
        /\ pc' = [pc EXCEPT ![r] =
                     IF j = Len(Handlers) THEN Idle ELSE At("main", j + 1, d, Undefined)]
    /\ UNCHANGED <<flush, prog, out, timers, invs, turn, hist>>

(***************************************************************************)
(* The event loop: when no unit of work is executing it starts the next    *)
(* tick of the library or the next timer callback.                         *)
(***************************************************************************)
\* A tick whose receiver is the promise of a deferred: the message waits in
\* the deferred while it is pending, and is passed on, by another tick, to
\* what the deferred has become otherwise.
DispatchDeferred(r) ==
    /\ pc[r].at = "idle" /\ tasks[r] # <<>>
    /\ Head(tasks[r]).self.kind = "promise"
    /\ LET t == Head(tasks[r])
           p == t.self.n
       IN IF deferreds[r][p].resolved
          THEN /\ tasks' = [tasks EXCEPT ![r] =
                               Append(Tail(@), Tick(deferreds[r][p].resolvedPromise, t.msg))]
               /\ UNCHANGED deferreds
          ELSE /\ tasks' = [tasks EXCEPT ![r] = Tail(@)]
               /\ deferreds' = [deferreds EXCEPT ![r][p].messages = Append(@, t.msg)]
    /\ Ticked(r)
    /\ UNCHANGED <<prog, out, pc, timers, invs, hist>>

\* A tick whose receiver is a fulfilled promise: "apply" calls the value,
\* "when" calls the handler with the value.  A call of incrementAsync binds
\* its parameter i in a closure of its own.
DispatchFulfilled(r) ==
    /\ pc[r].at = "idle" /\ tasks[r] # <<>>
    /\ Head(tasks[r]).self.kind \notin {"promise", "rejected"}
    /\ LET t == Head(tasks[r])
           fn == IF t.msg.op = "apply" THEN t.self.fn ELSE t.msg.fn
           arg == IF t.msg.op = "apply" THEN Undefined ELSE t.self
           k == IF fn = "incrementAsync" THEN Len(invs[r]) + 1 ELSE 0
       IN /\ pc' = [pc EXCEPT ![r] = At(Entry(fn), k, t.msg.d, arg)]
          /\ invs' = [invs EXCEPT ![r] = IF k = 0 THEN @ ELSE Append(@, Closure(arg, 0))]
          /\ hist' = [hist EXCEPT ![r] = Append(@, Event("call", fn, k, arg, TickTurn(r)))]
    /\ tasks' = [tasks EXCEPT ![r] = Tail(@)]
    /\ Ticked(r)
    /\ UNCHANGED <<prog, out, timers, deferreds>>

\* (a variant in which the timer is periodic and stays queued)
MutRunTimer(r) ==
    /\ pc[r].at = "idle" /\ timers[r] # <<>>
    /\ TimerDue(r)
    /\ Drained(r)
    /\ pc' = [pc EXCEPT ![r] = At("L14", Head(timers[r]), 0, Undefined)]
    /\ turn' = [turn EXCEPT ![r] = @ + 1]
    /\ hist' = [hist EXCEPT ![r] =
                   Append(@, Event("call", "callback", Head(timers[r]), Undefined, turn[r] + 1))]
    /\ UNCHANGED <<prog, out, timers, tasks, deferreds, invs>>

\* The callback of the oldest timer starts (index.js:13).
RunTimer(r) ==
    /\ pc[r].at = "idle" /\ timers[r] # <<>>
    /\ TimerDue(r)
    /\ Drained(r)
    /\ pc' = [pc EXCEPT ![r] = At("L14", Head(timers[r]), 0, Undefined)]
    /\ timers' = [timers EXCEPT ![r] = Tail(@)]
    /\ turn' = [turn EXCEPT ![r] = @ + 1]
    /\ hist' = [hist EXCEPT ![r] =
                   Append(@, Event("call", "callback", Head(timers[r]), Undefined, turn[r] + 1))]
    /\ UNCHANGED <<prog, out, tasks, deferreds, invs>>

(***************************************************************************)
(* deferred.resolve(v) of the library: a deferred that is already resolved *)
(* ignores it; otherwise the deferred becomes v (the promise v itself when *)
(* v is a promise, the promise fulfilled with v otherwise) and every       *)
(* message that waited is passed on to it, each by a tick of its own.      *)
(***************************************************************************)
Become(ds, d, v) ==
    [ds EXCEPT ![d] = [resolved |-> TRUE, messages |-> <<>>, resolvedPromise |-> v]]

\* (a variant that passes the waiting messages on to another promise, and
\* forgets them when the deferred is fulfilled with a plain value)
MutForwarded(ds, d, v) ==
    IF v.kind = "promise"
    THEN [j \in 1..Len(ds[d].messages) |-> Tick(v, ds[d].messages[j])]
    ELSE <<>>

Forwarded(ds, d, v) ==
    [j \in 1..Len(ds[d].messages) |-> Tick(v, ds[d].messages[j])]

Resolve(r, d, v) ==
    IF deferreds[r][d].resolved
    THEN UNCHANGED <<deferreds, tasks>>
    ELSE /\ deferreds' = [deferreds EXCEPT ![r] = Become(@, d, v)]
         /\ tasks' = [tasks EXCEPT ![r] = @ \o Forwarded(deferreds[r], d, v)]

\* The handler has returned pc.v: the library resolves the deferred of the
\* .then (of the fcall) with it, and the unit of work is over.
Ret(r) ==
    /\ pc[r].at = "ret"
    /\ Resolve(r, pc[r].d, pc[r].v)
    /\ pc' = [pc EXCEPT ![r] = Idle]
    /\ UNCHANGED <<flush, prog, out, timers, invs, turn, hist>>

(***************************************************************************)
(* begin, index.js:2-5                                                     *)
(***************************************************************************)
L3(r) ==
    /\ pc[r].at = "L3"
    /\ out' = [out EXCEPT ![r] = Append(@, ConsoleLine(Str("begin")))]
    /\ pc' = [pc EXCEPT ![r].at = "L4"]
    /\ Log(r, "log", "begin", 0, Str("begin"))
    /\ UNCHANGED <<flush, prog, timers, tasks, deferreds, invs, turn>>

L4(r) ==
    /\ pc[r].at = "L4"
    /\ pc' = [pc EXCEPT ![r] = At("ret", 0, @.d, Num(0))]
    /\ Log(r, "return", "begin", 0, Num(0))
    /\ UNCHANGED <<flush, prog, out, timers, tasks, deferreds, invs, turn>>

(***************************************************************************)
(* end, index.js:7-9                                                       *)
(***************************************************************************)
L8(r) ==
    /\ pc[r].at = "L8"
    /\ out' = [out EXCEPT ![r] = Append(@, ConsoleLine(Str("end")))]
    /\ pc' = [pc EXCEPT ![r].at = "L9"]
    /\ Log(r, "log", "end", 0, Str("end"))
    /\ UNCHANGED <<flush, prog, timers, tasks, deferreds, invs, turn>>

\* end has no return statement: it returns undefined
L9(r) ==
    /\ pc[r].at = "L9"
    /\ pc' = [pc EXCEPT ![r] = At("ret", 0, @.d, Undefined)]
    /\ Log(r, "return", "end", 0, Undefined)
    /\ UNCHANGED <<flush, prog, out, timers, tasks, deferreds, invs, turn>>

(***************************************************************************)
(* incrementAsync, index.js:11-20                                          *)
(***************************************************************************)
\* var defer = Q.defer();
L12(r) ==
    /\ pc[r].at = "L12"
    /\ deferreds' = [deferreds EXCEPT ![r] = Append(@, NewDeferred)]
    /\ invs' = [invs EXCEPT ![r][pc[r].k].defer = Len(deferreds[r]) + 1]
    /\ pc' = [pc EXCEPT ![r].at = "L13"]
    /\ UNCHANGED <<flush, prog, out, timers, tasks, turn, hist>>

\* (a variant that calls the function on the spot instead of handing it to
\* setTimeout)
MutL13(r) ==
    /\ pc[r].at = "L13"
    /\ pc' = [pc EXCEPT ![r].at = "L14"]
    /\ UNCHANGED <<flush, prog, out, timers, tasks, deferreds, invs, turn, hist>>

\* setTimeout(function() { ... }, 0);
L13(r) ==
    /\ pc[r].at = "L13"
    /\ timers' = [timers EXCEPT ![r] = Append(@, pc[r].k)]
    /\ pc' = [pc EXCEPT ![r].at = "L19"]
    /\ UNCHANGED <<flush, prog, out, tasks, deferreds, invs, turn, hist>>

\* (a variant that forgets the return statement)
MutL19(r) ==
    /\ pc[r].at = "L19"
    /\ pc' = [pc EXCEPT ![r] = At("ret", @.k, @.d, Undefined)]
    /\ Log(r, "return", "incrementAsync", pc[r].k, Undefined)
    /\ UNCHANGED <<flush, prog, out, timers, tasks, deferreds, invs, turn>>

\* return defer.promise;
L19(r) ==
    /\ pc[r].at = "L19"
    /\ LET p == PromiseOf(invs[r][pc[r].k].defer) IN
        /\ pc' = [pc EXCEPT ![r] = At("ret", @.k, @.d, p)]
        /\ Log(r, "return", "incrementAsync", pc[r].k, p)
    /\ UNCHANGED <<flush, prog, out, timers, tasks, deferreds, invs, turn>>

\* (a variant in which i is one counter shared by all the invocations)
MutL14(r) ==
    /\ pc[r].at = "L14"
    /\ invs' = [invs EXCEPT ![r] = [j \in 1..Len(@) |-> [@[j] EXCEPT !.i = PostIncrement(@)]]]
    /\ pc' = [pc EXCEPT ![r].at = "L15"]
    /\ Log(r, "increment", "callback", pc[r].k, PostIncrement(invs[r][pc[r].k].i))
    /\ UNCHANGED <<flush, prog, out, timers, tasks, deferreds, turn>>

\* the timer callback: i++;
L14(r) ==
    /\ pc[r].at = "L14"
    /\ invs' = [invs EXCEPT ![r][pc[r].k].i = PostIncrement(@)]
    /\ pc' = [pc EXCEPT ![r].at = "L15"]
    /\ Log(r, "increment", "callback", pc[r].k, PostIncrement(invs[r][pc[r].k].i))
    /\ UNCHANGED <<flush, prog, out, timers, tasks, deferreds, turn>>

\* console.log(i);
L15(r) ==
    /\ pc[r].at = "L15"
    /\ out' = [out EXCEPT ![r] = Append(@, ConsoleLine(invs[r][pc[r].k].i))]
    /\ pc' = [pc EXCEPT ![r].at = "L16"]
    /\ Log(r, "log", "callback", pc[r].k, invs[r][pc[r].k].i)
    /\ UNCHANGED <<flush, prog, timers, tasks, deferreds, invs, turn>>

\* (a variant in which defer.resolve calls a handler that waits on the spot,
\* as a promise library that resolves synchronously would)
MutL16Synchronous(r) ==
    /\ pc[r].at = "L16"
    /\ LET d == invs[r][pc[r].k].defer
           v == invs[r][pc[r].k].i
           ms == deferreds[r][d].messages
           k == IF ms # <<>> /\ ms[1].fn = "incrementAsync" THEN Len(invs[r]) + 1 ELSE 0
       IN /\ deferreds' = [deferreds EXCEPT ![r] = Become(@, d, v)]
          /\ pc' = [pc EXCEPT ![r] =
                       IF ms = <<>> THEN Idle ELSE At(Entry(ms[1].fn), k, ms[1].d, v)]
          /\ invs' = [invs EXCEPT ![r] = IF k = 0 THEN @ ELSE Append(@, Closure(v, 0))]
          /\ hist' = [hist EXCEPT ![r] =
                         @ \o <<Event("resolve", "callback", pc[r].k, v, turn[r])>>
                           \o (IF ms = <<>> THEN <<>>
                               ELSE <<Event("call", ms[1].fn, k, v, turn[r])>>)]
    /\ UNCHANGED <<flush, prog, out, timers, tasks, turn>>

\* (a variant that forgets to call defer.resolve)
MutL16Forgets(r) ==
    /\ pc[r].at = "L16"
    /\ pc' = [pc EXCEPT ![r] = Idle]
    /\ UNCHANGED <<flush, prog, out, timers, tasks, deferreds, invs, turn, hist>>

\* (a variant that calls defer.resolve() without the value)
MutL16(r) ==
    /\ pc[r].at = "L16"
    /\ Resolve(r, invs[r][pc[r].k].defer, Undefined)
    /\ pc' = [pc EXCEPT ![r] = Idle]
    /\ Log(r, "resolve", "callback", pc[r].k, Undefined)
    /\ UNCHANGED <<flush, prog, out, timers, invs, turn>>

\* defer.resolve(i); and the callback is over
L16(r) ==
    /\ pc[r].at = "L16"
    /\ Resolve(r, invs[r][pc[r].k].defer, invs[r][pc[r].k].i)
    /\ pc' = [pc EXCEPT ![r] = Idle]
    /\ Log(r, "resolve", "callback", pc[r].k, invs[r][pc[r].k].i)
    /\ UNCHANGED <<flush, prog, out, timers, invs, turn>>

Step(r) ==
    \/ MainFcall(r)
    \/ MainThen(r)
    \/ DispatchDeferred(r)
    \/ DispatchFulfilled(r)
    \/ RunTimer(r)
    \/ Ret(r)
    \/ L3(r) \/ L4(r)
    \/ L8(r) \/ L9(r)
    \/ L12(r) \/ L13(r) \/ L19(r)
    \/ L14(r) \/ L15(r) \/ L16(r)

\* one execution of the script
Next == Step(1)

Spec == Init /\ [][Next]_vars

\* two executions of the script, each with an event loop of its own
NextPair == \E r \in Runs : Step(r)

SpecPair == Init /\ [][NextPair]_vars

\* the event loop runs every queued unit of work, and a unit of work that has
\* started runs on
FairSpec == Spec /\ WF_vars(Next)

(***************************************************************************)
(* Vocabulary of the properties.                                           *)
(***************************************************************************)
\* nothing is executing and nothing is queued
Terminal(r) == pc[r].at = "idle" /\ timers[r] = <<>> /\ tasks[r] = <<>>

Expected == <<"begin", "1", "2", "3", "end">>

IsPrefix(s, t) == Len(s) <= Len(t) /\ \A j \in 1..Len(s) : s[j] = t[j]

Lines(r) == {out[r][j] : j \in 1..Len(out[r])}

\* the positions of the history of run r that hold an event ev of function fn
Events(r, ev, fn) == {j \in 1..Len(hist[r]) : hist[r][j].ev = ev /\ hist[r][j].fn = fn}

\* the events ev of function fn that belong to invocation k of incrementAsync
EventsOf(r, ev, fn, k) == {j \in Events(r, ev, fn) : hist[r][j].k = k}

\* the number of incrementAsync steps of the chain
NumSteps == Cardinality({j \in 1..Len(Handlers) : Handlers[j] = "incrementAsync"})

\* the deferred of invocation k has been created and is still pending
Unresolved(r, k) ==
    /\ invs[r][k].defer # 0
    /\ ~deferreds[r][invs[r][k].defer].resolved

\* C1: once no timer and no promise handler is pending any more, the console
\* holds exactly the five lines begin, 1, 2, 3, end, in that order.
C1_FinalOutput == \A r \in Runs : Terminal(r) => out[r] = Expected

C1_Witness == Terminal(1) /\ Len(out[1]) = 5

\* C2: the console output so far is always a prefix of <begin, 1, 2, 3, end>.
C2_OutputPrefix == \A r \in Runs : IsPrefix(out[r], Expected)

C2_Witness == out[1] = <<"begin", "1", "2">> /\ pc[1].at = "L16"

\* C3: every handler of the chain starts only after the previous element has
\* signalled completion: the first incrementAsync is called after begin has
\* returned, the (k+1)-th after the timer callback of the k-th has called
\* defer.resolve, and end after the defer.resolve of the last one.
Before(r, j, ev, fn, k) ==
    \E b \in 1..(j - 1) :
        hist[r][b].ev = ev /\ hist[r][b].fn = fn /\ hist[r][b].k = k

C3_StartsAfterCompletion ==
    \A r \in Runs :
        /\ \A j \in Events(r, "call", "incrementAsync") :
              IF hist[r][j].k = 1
              THEN Before(r, j, "return", "begin", 0)
              ELSE Before(r, j, "resolve", "callback", hist[r][j].k - 1)
        /\ \A j \in Events(r, "call", "end") :
              Before(r, j, "resolve", "callback", NumSteps)

C3_Witness ==
    /\ Events(1, "call", "end") # {}
    /\ Cardinality(Events(1, "call", "incrementAsync")) = 3

\* C4: steps never overlap: at most one setTimeout callback is queued and at
\* most one deferred created by incrementAsync is unresolved.
C4_NoOverlap ==
    \A r \in Runs :
        /\ Len(timers[r]) <= 1
        /\ Cardinality({k \in 1..Len(invs[r]) : Unresolved(r, k)}) <= 1

C4_Witness ==
    /\ Len(timers[1]) = 1
    /\ Len(invs[1]) = 2 /\ Unresolved(1, 2)

\* C5: the value is threaded through the chain: the k-th invocation of
\* incrementAsync receives k-1 (begin produces 0), logs k and resolves its
\* promise with k, and the value given to defer.resolve is the first argument
\* of the next handler.
LastResolve(r, j) ==
    LET before == {b \in Events(r, "resolve", "callback") : b < j}
    IN CHOOSE b \in before : \A c \in before : c <= b

C5_ValueThreaded ==
    \A r \in Runs :
        /\ \A j \in Events(r, "return", "begin") : hist[r][j].v = Num(0)
        /\ \A j \in Events(r, "call", "incrementAsync") :
              hist[r][j].v = Num(hist[r][j].k - 1)
        /\ \A j \in Events(r, "log", "callback") : hist[r][j].v = Num(hist[r][j].k)
        /\ \A j \in Events(r, "resolve", "callback") : hist[r][j].v = Num(hist[r][j].k)
        /\ \A j \in Events(r, "call", "incrementAsync") \cup Events(r, "call", "end") :
              \/ hist[r][j].k = 1
              \/ /\ {b \in Events(r, "resolve", "callback") : b < j} # {}
                 /\ hist[r][j].v = hist[r][LastResolve(r, j)].v

C5_Witness ==
    /\ \E j \in Events(1, "call", "end") : hist[1][j].v = Num(3)
    /\ \E j \in Events(1, "call", "incrementAsync") :
          hist[1][j].k = 3 /\ hist[1][j].v = Num(2)

\* C6: every run eventually emits end and comes to rest with no timer and no
\* promise handler pending, provided the event loop runs every queued unit of
\* work.
C6_Terminates == <>[](Terminal(1) /\ "end" \in Lines(1))

C6_Witness == Terminal(1) /\ "end" \in Lines(1)

\* C7: the work of a step is deferred: when an invocation of incrementAsync
\* returns, its promise is unresolved, its i has not been incremented and it
\* has logged nothing; the increment, the log and defer.resolve happen in a
\* later unit of work than the one that called incrementAsync.
CallOf(r, k) ==
    CHOOSE j \in Events(r, "call", "incrementAsync") : hist[r][j].k = k

Deferred(r, j) ==
    /\ hist[r][j].turn > hist[r][CallOf(r, hist[r][j].k)].turn
    /\ \E b \in 1..(j - 1) :
          /\ hist[r][b].ev = "return" /\ hist[r][b].fn = "incrementAsync"
          /\ hist[r][b].k = hist[r][j].k

C7_StepIsDeferred ==
    \A r \in Runs :
        /\ (pc[r].at = "ret" /\ pc[r].k # 0) =>
              /\ Unresolved(r, pc[r].k)
              /\ invs[r][pc[r].k].i = hist[r][CallOf(r, pc[r].k)].v
              /\ \A j \in 1..Len(hist[r]) :
                    hist[r][j].fn = "callback" => hist[r][j].k # pc[r].k
        /\ \A j \in Events(r, "increment", "callback") : Deferred(r, j)
        /\ \A j \in Events(r, "log", "callback") : Deferred(r, j)
        /\ \A j \in Events(r, "resolve", "callback") : Deferred(r, j)

C7_Witness ==
    /\ pc[1].at = "ret" /\ pc[1].k = 2
    /\ \E j \in Events(1, "resolve", "callback") : hist[1][j].k = 1

\* C8: two executions of the script, each from a fresh counter and each under
\* a schedule of its own, never disagree on a line, and emit the same lines
\* once both have come to rest.
C8_SameOutput ==
    /\ IsPrefix(out[1], out[2]) \/ IsPrefix(out[2], out[1])
    /\ (Terminal(1) /\ Terminal(2)) => out[1] = out[2]

\* both have come to rest, the event loops having chosen differently
C8_Witness ==
    /\ Terminal(1) /\ Terminal(2)
    /\ hist[1] # hist[2]
    /\ Len(out[2]) = 5

\* C9: the counter starts at 0, is incremented exactly once per step, by one
\* each time, three times over the whole run, and is 3 when end runs.
C9_CounterOncePerStep ==
    \A r \in Runs :
        /\ \A j \in Events(r, "return", "begin") : hist[r][j].v = Num(0)
        /\ \A j \in Events(r, "increment", "callback") :
              /\ hist[r][j].v =
                    Num(1 + Cardinality({b \in Events(r, "increment", "callback") : b < j}))
              /\ \A b \in Events(r, "increment", "callback") :
                    hist[r][b].k = hist[r][j].k => b = j
        /\ Cardinality(Events(r, "increment", "callback")) <= NumSteps
        /\ \A j \in Events(r, "call", "end") :
              /\ hist[r][j].v = Num(3)
              /\ Cardinality(Events(r, "increment", "callback")) = 3

C9_Witness ==
    /\ pc[1].at = "L8"
    /\ Cardinality(Events(1, "increment", "callback")) = 3

\* C10: in every state, the numeric line k (k = 2, 3) is on the console only
\* if the timer callback of step k-1 has run to its end, defer.resolve
\* included.
C10_LineAfterPredecessor ==
    \A r \in Runs : \A n \in 2..NumSteps :
        ToString(n) \in Lines(r) =>
            /\ Len(invs[r]) >= n - 1
            /\ invs[r][n - 1].defer # 0
            /\ deferreds[r][invs[r][n - 1].defer].resolved
            /\ \E j \in Events(r, "resolve", "callback") : hist[r][j].k = n - 1
            /\ ~(pc[r].at \in {"L14", "L15", "L16"} /\ pc[r].k = n - 1)

C10_Witness ==
    /\ "3" \in Lines(1)
    /\ pc[1].at = "L16"

(***************************************************************************)
(* The snippets of 01-async/post.md and 01-promises/post.md:               *)
(*                                                                         *)
(*     console.log("begin"); f(arr, callback); console.log("end");         *)
(*                                                                         *)
(* with f one of each, asyncEach, asyncEach2, asyncEach3, asyncEach4 and   *)
(* callback one of logItem, asyncLogItem.  invs holds the scopes that      *)
(* closures keep alive: the scope of the call of f (its variable i), of an *)
(* IIFE (iCopy), of makeCallbackWrapper (i), the argument bound by         *)
(* callback.bind and the item of asyncLogItem.  A timer is the function    *)
(* handed to setTimeout: its kind and its scope.                           *)
(***************************************************************************)
\* the longest input array
MaxLen == 3

\* the elements of the input arrays
Items == {1, 2, 3}

Arrays == UNION {[1..n -> Items] : n \in 0..MaxLen}

\* The snippets as the posts write them.  The "attempt 2" snippet defines
\* asyncEach2 and calls asyncEach: the asyncEach of attempt 1 when that
\* snippet was loaded before, a name that is not defined otherwise.  The
\* functions asyncEach2 is also run as the post means it to be called.
Snippets ==
    { Program("each", "each", "logItem", <<>>),
      Program("attempt1", "asyncEach", "logItem", <<>>),
      Program("attempt2", "asyncEach", "logItem", <<>>),
      Program("attempt2", "notDefined", "logItem", <<>>),
      Program("asyncEach2", "asyncEach2", "logItem", <<>>),
      Program("attempt3", "asyncEach3", "logItem", <<>>),
      Program("attempt4", "asyncEach4", "logItem", <<>>),
      Program("asyncLogItem", "asyncEach", "asyncLogItem", <<>>) }

Programs == {[p EXCEPT !.arr = a] : p \in Snippets, a \in Arrays}

\* (a variant that counts the elements from 1)
MutIndex(arr, n) == IF n \in 1..Len(arr) THEN Num(arr[n]) ELSE Undefined

\* arr[n] in JavaScript: undefined outside the array
Index(arr, n) == IF n + 1 \in 1..Len(arr) THEN Num(arr[n + 1]) ELSE Undefined

\* the function handed to setTimeout: "shared" reads arr[i] with the i of the
\* call of asyncEach, "copy" with the iCopy of its IIFE, "wrapper" with the i
\* of makeCallbackWrapper, "bound" has its argument bound, "later" is the
\* inner function of asyncLogItem
Timer(fn, scope) == [fn |-> fn, scope |-> scope]

InitEach ==
    /\ \E p \in Programs : prog = [r \in Runs |-> IF r = 1 THEN p ELSE Chain]
    /\ out = [r \in Runs |-> <<>>]
    /\ pc = [r \in Runs |-> IF r = 1 THEN At("begin", 0, 0, Undefined)
                                     ELSE At("main", 0, 0, Undefined)]
    /\ timers = [r \in Runs |-> <<>>]
    /\ tasks = [r \in Runs |-> <<>>]
    /\ deferreds = [r \in Runs |-> <<>>]
    /\ invs = [r \in Runs |-> <<>>]
    /\ turn = [r \in Runs |-> 1]
    /\ flush = [r \in Runs |-> "perTick"]
    /\ hist = [r \in Runs |-> <<>>]

\* console.log("begin");
ScriptBegin(r) ==
    /\ pc[r].at = "begin"
    /\ out' = [out EXCEPT ![r] = Append(@, ConsoleLine(Str("begin")))]
    /\ pc' = [pc EXCEPT ![r].at = "call"]
    /\ Log(r, "log", "script", 0, Str("begin"))
    /\ UNCHANGED <<flush, prog, timers, tasks, deferreds, invs, turn>>

\* f(arr, callback): the call has a scope of its own, and the for statement
\* starts with var i = 0
ScriptCall(r) ==
    /\ pc[r].at = "call" /\ prog[r].fn # "notDefined"
    /\ invs' = [invs EXCEPT ![r] = Append(@, Closure(Num(0), 0))]
    /\ pc' = [pc EXCEPT ![r] = At("for", Len(invs[r]) + 1, 0, Undefined)]
    /\ Log(r, "call", prog[r].fn, Len(invs[r]) + 1, Undefined)
    /\ UNCHANGED <<flush, prog, out, timers, tasks, deferreds, turn>>

\* the call of a name that is not defined throws a ReferenceError, which
\* ends the script
ScriptCallNotDefined(r) ==
    /\ pc[r].at = "call" /\ prog[r].fn = "notDefined"
    /\ pc' = [pc EXCEPT ![r] = Idle]
    /\ Log(r, "throw", "script", 0, Str("ReferenceError"))
    /\ UNCHANGED <<flush, prog, out, timers, tasks, deferreds, invs, turn>>

\* i < arr.length
ForTest(r) ==
    /\ pc[r].at = "for"
    /\ pc' = [pc EXCEPT ![r].at =
                 IF invs[r][pc[r].k].i.n < Len(prog[r].arr) THEN prog[r].fn ELSE "end"]
    /\ UNCHANGED <<flush, prog, out, timers, tasks, deferreds, invs, turn, hist>>

\* ++i
ForIncr(r) ==
    /\ pc[r].at = "incr"
    /\ invs' = [invs EXCEPT ![r][pc[r].k].i = Num(@.n + 1)]
    /\ pc' = [pc EXCEPT ![r].at = "for"]
    /\ UNCHANGED <<flush, prog, out, timers, tasks, deferreds, turn, hist>>

\* (a variant that hands the call of the callback to setTimeout)
MutBodyEach(r) ==
    /\ pc[r].at = "each"
    /\ invs' = [invs EXCEPT ![r] =
                   Append(@, Closure(Index(prog[r].arr, invs[r][pc[r].k].i.n), 0))]
    /\ timers' = [timers EXCEPT ![r] = Append(@, [fn |-> "bound", scope |-> Len(invs[r]) + 1])]
    /\ pc' = [pc EXCEPT ![r].at = "incr"]
    /\ UNCHANGED <<flush, prog, out, tasks, deferreds, turn, hist>>

\* each: callback(arr[i]);
BodyEach(r) ==
    /\ pc[r].at = "each"
    /\ pc' = [pc EXCEPT ![r] =
                 At(prog[r].cb, @.k, 1, Index(prog[r].arr, invs[r][pc[r].k].i.n))]
    /\ UNCHANGED <<flush, prog, out, timers, tasks, deferreds, invs, turn, hist>>

\* (a variant in which every iteration has an i of its own)
MutBodyAsyncEach(r) ==
    /\ pc[r].at = "asyncEach"
    /\ invs' = [invs EXCEPT ![r] = Append(@, Closure(invs[r][pc[r].k].i, 0))]
    /\ timers' = [timers EXCEPT ![r] = Append(@, [fn |-> "shared", scope |-> Len(invs[r]) + 1])]
    /\ pc' = [pc EXCEPT ![r].at = "incr"]
    /\ UNCHANGED <<flush, prog, out, tasks, deferreds, turn, hist>>

\* asyncEach: setTimeout(function() { callback(arr[i]); }, 0);
BodyAsyncEach(r) ==
    /\ pc[r].at = "asyncEach"
    /\ timers' = [timers EXCEPT ![r] = Append(@, Timer("shared", pc[r].k))]
    /\ pc' = [pc EXCEPT ![r].at = "incr"]
    /\ UNCHANGED <<flush, prog, out, tasks, deferreds, invs, turn, hist>>

\* asyncEach2: (function(iCopy) { setTimeout(function() {
\* callback(arr[iCopy]); }, 0); }(i));
BodyAsyncEach2(r) ==
    /\ pc[r].at = "asyncEach2"
    /\ invs' = [invs EXCEPT ![r] = Append(@, Closure(invs[r][pc[r].k].i, 0))]
    /\ timers' = [timers EXCEPT ![r] = Append(@, Timer("copy", Len(invs[r]) + 1))]
    /\ pc' = [pc EXCEPT ![r].at = "incr"]
    /\ UNCHANGED <<flush, prog, out, tasks, deferreds, turn, hist>>

\* asyncEach3: setTimeout(makeCallbackWrapper(arr, i, callback), 0);
BodyAsyncEach3(r) ==
    /\ pc[r].at = "asyncEach3"
    /\ invs' = [invs EXCEPT ![r] = Append(@, Closure(invs[r][pc[r].k].i, 0))]
    /\ timers' = [timers EXCEPT ![r] = Append(@, Timer("wrapper", Len(invs[r]) + 1))]
    /\ pc' = [pc EXCEPT ![r].at = "incr"]
    /\ UNCHANGED <<flush, prog, out, tasks, deferreds, turn, hist>>

\* asyncEach4: var boundCallback = callback.bind(null, arr[i]);
\* setTimeout(boundCallback, 0);
BodyAsyncEach4(r) ==
    /\ pc[r].at = "asyncEach4"
    /\ invs' = [invs EXCEPT ![r] =
                   Append(@, Closure(Index(prog[r].arr, invs[r][pc[r].k].i.n), 0))]
    /\ timers' = [timers EXCEPT ![r] = Append(@, Timer("bound", Len(invs[r]) + 1))]
    /\ pc' = [pc EXCEPT ![r].at = "incr"]
    /\ UNCHANGED <<flush, prog, out, tasks, deferreds, turn, hist>>

\* console.log("end"); and the script is over
ScriptEnd(r) ==
    /\ pc[r].at = "end"
    /\ out' = [out EXCEPT ![r] = Append(@, ConsoleLine(Str("end")))]
    /\ pc' = [pc EXCEPT ![r] = Idle]
    /\ Log(r, "log", "script", 0, Str("end"))
    /\ UNCHANGED <<flush, prog, timers, tasks, deferreds, invs, turn>>

\* The value a timer's function passes on: arr[i] read now, through the scope
\* the function closed over, or the value bound or kept when it was made.
Item(r, t) ==
    IF t.fn \in {"bound", "later"}
    THEN invs[r][t.scope].i
    ELSE Index(prog[r].arr, invs[r][t.scope].i.n)

\* (a variant that starts a timer's function while the script is between two
\* statements of its loop)
MutRunCallback(r) ==
    /\ pc[r].at \in {"idle", "incr"} /\ timers[r] # <<>>
    /\ LET t == Head(timers[r]) IN
        /\ pc' = [pc EXCEPT ![r] =
                     At(IF t.fn = "later" THEN "later" ELSE prog[r].cb,
                        t.scope, 0, Item(r, t))]
        /\ hist' = [hist EXCEPT ![r] =
                       Append(@, Event("call", t.fn, invs[r][t.scope].i.n,
                                       Item(r, t), turn[r] + 1))]
    /\ timers' = [timers EXCEPT ![r] = Tail(@)]
    /\ turn' = [turn EXCEPT ![r] = @ + 1]
    /\ UNCHANGED <<flush, prog, out, tasks, deferreds, invs>>

\* (a variant that starts the newest timer first)
MutRunCallbackNewest(r) ==
    /\ pc[r].at = "idle" /\ timers[r] # <<>>
    /\ LET t == timers[r][Len(timers[r])] IN
        /\ pc' = [pc EXCEPT ![r] =
                     At(IF t.fn = "later" THEN "later" ELSE prog[r].cb,
                        t.scope, 0, Item(r, t))]
        /\ hist' = [hist EXCEPT ![r] =
                       Append(@, Event("call", t.fn, invs[r][t.scope].i.n,
                                       Item(r, t), turn[r] + 1))]
    /\ timers' = [timers EXCEPT ![r] = SubSeq(@, 1, Len(@) - 1)]
    /\ turn' = [turn EXCEPT ![r] = @ + 1]
    /\ UNCHANGED <<flush, prog, out, tasks, deferreds, invs>>

\* The event loop starts the function of the oldest timer, when nothing is
\* executing: it calls the callback, or console.log in asyncLogItem's inner
\* function.
RunCallback(r) ==
    /\ pc[r].at = "idle" /\ timers[r] # <<>>
    /\ LET t == Head(timers[r]) IN
        /\ pc' = [pc EXCEPT ![r] =
                     At(IF t.fn = "later" THEN "later" ELSE prog[r].cb,
                        t.scope, 0, Item(r, t))]
        /\ hist' = [hist EXCEPT ![r] =
                       Append(@, Event("call", t.fn, invs[r][t.scope].i.n,
                                       Item(r, t), turn[r] + 1))]
    /\ timers' = [timers EXCEPT ![r] = Tail(@)]
    /\ turn' = [turn EXCEPT ![r] = @ + 1]
    /\ UNCHANGED <<flush, prog, out, tasks, deferreds, invs>>

\* logItem: console.log(item); back in the loop of each (d = 1) or at the end
\* of a timer's function
LogItem(r) ==
    /\ pc[r].at = "logItem"
    /\ out' = [out EXCEPT ![r] = Append(@, ConsoleLine(pc[r].v))]
    /\ pc' = [pc EXCEPT ![r] = IF @.d = 1 THEN At("incr", @.k, 0, Undefined) ELSE Idle]
    /\ Log(r, "log", "logItem", pc[r].d, pc[r].v)
    /\ UNCHANGED <<flush, prog, timers, tasks, deferreds, invs, turn>>

\* asyncLogItem: setTimeout(function() { console.log(item); }, 0);
AsyncLogItem(r) ==
    /\ pc[r].at = "asyncLogItem"
    /\ invs' = [invs EXCEPT ![r] = Append(@, Closure(pc[r].v, 0))]
    /\ timers' = [timers EXCEPT ![r] = Append(@, Timer("later", Len(invs[r]) + 1))]
    /\ pc' = [pc EXCEPT ![r] = IF @.d = 1 THEN At("incr", @.k, 0, Undefined) ELSE Idle]
    /\ UNCHANGED <<flush, prog, out, tasks, deferreds, turn, hist>>

\* the inner function of asyncLogItem: console.log(item);
Later(r) ==
    /\ pc[r].at = "later"
    /\ out' = [out EXCEPT ![r] = Append(@, ConsoleLine(pc[r].v))]
    /\ pc' = [pc EXCEPT ![r] = Idle]
    /\ Log(r, "log", "later", 0, pc[r].v)
    /\ UNCHANGED <<flush, prog, timers, tasks, deferreds, invs, turn>>

StepEach(r) ==
    \/ ScriptBegin(r)
    \/ ScriptCall(r)
    \/ ScriptCallNotDefined(r)
    \/ ForTest(r)
    \/ ForIncr(r)
    \/ BodyEach(r)
    \/ BodyAsyncEach(r)
    \/ BodyAsyncEach2(r)
    \/ BodyAsyncEach3(r)
    \/ BodyAsyncEach4(r)
    \/ ScriptEnd(r)
    \/ RunCallback(r)
    \/ LogItem(r)
    \/ AsyncLogItem(r)
    \/ Later(r)

NextEach == StepEach(1)

\* one execution of a snippet
SpecEach == InitEach /\ [][NextEach]_vars

(***************************************************************************)
(* Vocabulary of the properties of the snippets.                           *)
(***************************************************************************)
AsyncFns == {"asyncEach", "asyncEach2", "asyncEach3", "asyncEach4"}

\* the functions handed to setTimeout
TimerFns == {"shared", "copy", "wrapper", "bound", "later"}

\* the console lines of the elements of arr, in index order
ItemLines(arr) == [j \in 1..Len(arr) |-> ConsoleLine(Num(arr[j]))]

\* as many lines "undefined" as arr has elements
UndefinedLines(arr) == [j \in 1..Len(arr) |-> ConsoleLine(Undefined)]

\* the positions of the history of run r at which a timer's function starts
TimerCalls(r) ==
    {j \in 1..Len(hist[r]) : hist[r][j].ev = "call" /\ hist[r][j].fn \in TimerFns}

\* C11: one unit of work executes at a time and runs to its synchronous
\* completion: a timer's function starts only after the script has ended, in
\* a unit of work of its own, so that in every asyncEach variant, for every
\* input array, "end" is on the console before any deferred callback emits a
\* line.
C11_EndBeforeCallbacks ==
    \A r \in Runs : prog[r].fn \in AsyncFns =>
        /\ \A j \in TimerCalls(r) :
              /\ hist[r][j].turn > 1
              /\ \E b \in 1..(j - 1) :
                    hist[r][b].ev = "log" /\ hist[r][b].v = Str("end")
              /\ \A b \in 1..(j - 1) : hist[r][b].turn < hist[r][j].turn
        /\ \A j \in Events(r, "log", "logItem") \cup Events(r, "log", "later") :
              \E b \in 1..(j - 1) :
                  hist[r][b].ev = "log" /\ hist[r][b].fn = "script"
                  /\ hist[r][b].v = Str("end")
        /\ (pc[r].at \in {"logItem", "asyncLogItem", "later"}) =>
              "end" \in Lines(r)

C11_Witness ==
    /\ prog[1].fn = "asyncEach3" /\ prog[1].arr = <<1, 2, 3>>
    /\ out[1] = <<"begin", "end", "1">>
    /\ Len(timers[1]) = 2

\* C13: the synchronous each calls the callback once per element, in index
\* order, before it returns: for any array the console ends as begin, the
\* elements in array order, end, all of it in the unit of work of the script.
C13_EachIsSynchronous ==
    \A r \in Runs : prog[r].fn = "each" =>
        /\ IsPrefix(out[r], <<"begin">> \o ItemLines(prog[r].arr) \o <<"end">>)
        /\ Terminal(r) => out[r] = <<"begin">> \o ItemLines(prog[r].arr) \o <<"end">>
        /\ turn[r] = 1
        /\ timers[r] = <<>>
        /\ \A j \in 1..Len(hist[r]) : hist[r][j].turn = 1

C13_Witness ==
    /\ prog[1].fn = "each" /\ prog[1].arr = <<1, 2, 3>>
    /\ Terminal(1)
    /\ out[1] = <<"begin", "1", "2", "3", "end">>

\* C14: the first asyncEach with logItem prints begin, end and then
\* undefined once per element: exactly arr.length callbacks run, all after
\* end, and each logs undefined.
C14_Attempt1PrintsUndefined ==
    \A r \in Runs : (prog[r].snippet = "attempt1" /\ Terminal(r)) =>
        /\ out[r] = <<"begin", "end">> \o UndefinedLines(prog[r].arr)
        /\ Cardinality(TimerCalls(r)) = Len(prog[r].arr)
        /\ prog[r].arr = <<1, 2, 3>> =>
              out[r] = <<"begin", "end", "undefined", "undefined", "undefined">>

C14_Witness ==
    /\ prog[1].snippet = "attempt1" /\ prog[1].arr = <<1, 2, 3>>
    /\ Terminal(1)
    /\ Len(out[1]) = 5

\* C15: the "attempt 2" snippet as the post writes it (it defines asyncEach2
\* and calls asyncEach) prints begin, end, 1, 2, 3.
C15_Attempt2AsWritten ==
    \A r \in Runs :
        (prog[r].snippet = "attempt2" /\ prog[r].arr = <<1, 2, 3>> /\ Terminal(r)) =>
            out[r] = <<"begin", "end", "1", "2", "3">>

\* C16: the first asyncEach with the asynchronous callback asyncLogItem
\* prints begin, end, 1, 2, 3.
C16_AsyncLogItemWorks ==
    \A r \in Runs :
        (prog[r].snippet = "asyncLogItem" /\ prog[r].arr = <<1, 2, 3>> /\ Terminal(r)) =>
            out[r] = <<"begin", "end", "1", "2", "3">>

\* C18: in the first asyncEach every deferred callback runs after the for
\* loop has finished; when it runs the loop variable i equals arr.length, all
\* callbacks read that one i, and each evaluates arr[arr.length].
C18_SharedLoopVariable ==
    \A r \in Runs : prog[r].fn = "asyncEach" =>
        /\ \A j \in 1..Len(timers[r]) :
              timers[r][j].fn = "shared" => timers[r][j].scope = 1
        /\ \A j \in TimerCalls(r) : hist[r][j].fn = "shared" =>
              /\ hist[r][j].k = Len(prog[r].arr)
              /\ hist[r][j].v = Undefined
              /\ \E b \in 1..(j - 1) :
                    hist[r][b].ev = "log" /\ hist[r][b].v = Str("end")
        /\ (pc[r].at \in {"logItem", "asyncLogItem"} /\ pc[r].d = 0) =>
              /\ pc[r].k = 1
              /\ invs[r][1].i = Num(Len(prog[r].arr))

C18_Witness ==
    /\ prog[1].fn = "asyncEach" /\ prog[1].arr = <<1, 2, 3>>
    /\ pc[1].at = "logItem" /\ pc[1].d = 0
    /\ invs[1][1].i = Num(3)
    /\ Len(timers[1]) = 1

\* C19: asyncEach2 (IIFE with iCopy), asyncEach3 (makeCallbackWrapper) and
\* asyncEach4 (callback.bind) bind the index or the element per iteration:
\* for every array they print begin, end and then the elements once each in
\* index order, the timers firing in the order they were scheduled.
C19_ByValueVariants ==
    \A r \in Runs : prog[r].fn \in {"asyncEach2", "asyncEach3", "asyncEach4"} =>
        /\ IsPrefix(out[r], <<"begin", "end">> \o ItemLines(prog[r].arr))
        /\ Terminal(r) => out[r] = <<"begin", "end">> \o ItemLines(prog[r].arr)
        /\ \A j \in TimerCalls(r) :
              LET n == Cardinality({b \in TimerCalls(r) : b < j})
              IN /\ hist[r][j].v = Index(prog[r].arr, n)
                 /\ hist[r][j].fn \in {"copy", "wrapper"} => hist[r][j].k = n

C19_Witness ==
    /\ prog[1].fn = "asyncEach4" /\ prog[1].arr = <<3, 1, 2>>
    /\ Terminal(1)
    /\ out[1] = <<"begin", "end", "3", "1", "2">>

(***************************************************************************)
(* The incrementAsync without setTimeout that 01-promises/post.md:460-463  *)
(* speaks of: after var defer = Q.defer() it runs i++, console.log(i) and  *)
(* defer.resolve(i) on the spot and then returns defer.promise.            *)
(***************************************************************************)
\* i++;
V14(r) ==
    /\ pc[r].at = "L13"
    /\ invs' = [invs EXCEPT ![r][pc[r].k].i = PostIncrement(@)]
    /\ pc' = [pc EXCEPT ![r].at = "V15"]
    /\ Log(r, "increment", "incrementAsync", pc[r].k, PostIncrement(invs[r][pc[r].k].i))
    /\ UNCHANGED <<flush, prog, out, timers, tasks, deferreds, turn>>

\* console.log(i);
V15(r) ==
    /\ pc[r].at = "V15"
    /\ out' = [out EXCEPT ![r] = Append(@, ConsoleLine(invs[r][pc[r].k].i))]
    /\ pc' = [pc EXCEPT ![r].at = "V16"]
    /\ Log(r, "log", "incrementAsync", pc[r].k, invs[r][pc[r].k].i)
    /\ UNCHANGED <<flush, prog, timers, tasks, deferreds, invs, turn>>

\* (a variant that calls defer.resolve() without the value)
MutV16(r) ==
    /\ pc[r].at = "V16"
    /\ Resolve(r, invs[r][pc[r].k].defer, Undefined)
    /\ pc' = [pc EXCEPT ![r].at = "L19"]
    /\ Log(r, "resolve", "incrementAsync", pc[r].k, Undefined)
    /\ UNCHANGED <<flush, prog, out, timers, invs, turn>>

\* defer.resolve(i); and on to return defer.promise
V16(r) ==
    /\ pc[r].at = "V16"
    /\ Resolve(r, invs[r][pc[r].k].defer, invs[r][pc[r].k].i)
    /\ pc' = [pc EXCEPT ![r].at = "L19"]
    /\ Log(r, "resolve", "incrementAsync", pc[r].k, invs[r][pc[r].k].i)
    /\ UNCHANGED <<flush, prog, out, timers, invs, turn>>

StepSync(r) ==
    \/ MainFcall(r)
    \/ MainThen(r)
    \/ DispatchDeferred(r)
    \/ DispatchFulfilled(r)
    \/ Ret(r)
    \/ L3(r) \/ L4(r)
    \/ L8(r) \/ L9(r)
    \/ L12(r) \/ V14(r) \/ V15(r) \/ V16(r) \/ L19(r)

\* the script as it is (run 1) beside the script without setTimeout (run 2)
NextVariants == Step(1) \/ StepSync(2)

SpecVariants == Init /\ [][NextVariants]_vars

\* the output of the script without setTimeout (run 2): the same lines as the
\* script as written (run 1), and no timer is ever set
SameOutput ==
    /\ IsPrefix(out[2], Expected)
    /\ Terminal(2) => out[2] = Expected
    /\ (Terminal(1) /\ Terminal(2)) => out[1] = out[2]
    /\ timers[2] = <<>>

\* the calls of the handlers given to .then, in the history of run r
HandlerCalls(r) == Events(r, "call", "incrementAsync") \cup Events(r, "call", "end")

\* C12: the setTimeout of incrementAsync is redundant: without it the script
\* prints the same begin, 1, 2, 3, end, and its handlers are still called
\* asynchronously, each in a later turn of the event loop than the resolve
\* (for the first handler: the return of begin) that lets it run.
C12_TimeoutRedundant ==
    /\ SameOutput
    /\ \A j \in HandlerCalls(2) :
          IF hist[2][j].fn = "incrementAsync" /\ hist[2][j].k = 1
          THEN \E b \in Events(2, "return", "begin") :
                  hist[2][b].turn < hist[2][j].turn
          ELSE \E b \in Events(2, "resolve", "incrementAsync") :
                  /\ hist[2][b].k = (IF hist[2][j].fn = "end" THEN NumSteps
                                                                ELSE hist[2][j].k - 1)
                  /\ hist[2][b].v = hist[2][j].v
                  /\ hist[2][b].turn < hist[2][j].turn

\* a handler is called after the function that produced its value has
\* returned: begin for the first, for the others the invocation of
\* incrementAsync whose defer.resolve supplied the value
CalledAfterReturn(r) ==
    \A j \in HandlerCalls(r) :
        IF hist[r][j].fn = "incrementAsync" /\ hist[r][j].k = 1
        THEN \E b \in Events(r, "return", "begin") :
                b < j /\ hist[r][b].v = hist[r][j].v
        ELSE LET k == IF hist[r][j].fn = "end" THEN NumSteps ELSE hist[r][j].k - 1
             IN \E b \in EventsOf(r, "resolve", "incrementAsync", k) :
                \E c \in EventsOf(r, "return", "incrementAsync", k) :
                    /\ b < c /\ c < j
                    /\ hist[r][b].v = hist[r][j].v
                    /\ hist[r][b].turn <= hist[r][j].turn

\* a step that calls a handler is the library taking a tick from its queue
\* while no code of the script is running
CalledFromQueue(r) ==
    \A j \in (Len(hist[r]) + 1)..Len(hist'[r]) :
        (hist'[r][j].ev = "call" /\ hist'[r][j].fn \in {"incrementAsync", "end"})
            => /\ pc[r].at = "idle"
               /\ tasks[r] # <<>>
               /\ tasks'[r] = Tail(tasks[r])

\* C12 (amended): without the setTimeout the script prints the same begin, 1,
\* 2, 3, end, and its handlers are still called asynchronously: each is
\* called by the library from its queue, while no code of the script is
\* running and after the function whose resolve lets it run has returned.
\* That may be in the same turn of the event loop as the resolve.
C12_TimeoutRedundantAmended ==
    /\ [](SameOutput /\ CalledAfterReturn(2))
    /\ [][CalledFromQueue(2)]_vars

C12_Witness ==
    /\ Terminal(1) /\ Terminal(2)
    /\ out[2] = Expected
    /\ Cardinality(Events(2, "resolve", "incrementAsync")) = 3
    /\ \E j \in Events(2, "call", "end") : \E b \in Events(2, "resolve", "incrementAsync") :
          hist[2][b].k = NumSteps /\ hist[2][b].turn = hist[2][j].turn

\* C20: in the sequencer demo no two console lines are emitted in the same
\* turn of the event loop: each of begin, 1, 2, 3, end is emitted in one of its own,
\* so that control is back in the event loop between any two of them.
C20_OneLinePerTurn ==
    \A r \in Runs :
        LET logs == {j \in 1..Len(hist[r]) : hist[r][j].ev = "log"}
        IN /\ Cardinality(logs) = Len(out[r])
           /\ \A j \in logs : \A b \in logs : b < j => hist[r][b].turn < hist[r][j].turn

C20_Witness ==
    /\ Len(out[1]) = 5
    /\ Cardinality({hist[1][j].turn : j \in Events(1, "log", "callback")}) = 3

(***************************************************************************)
(* Failure of a step.  The script has no failing step; here a handler may  *)
(* throw as it starts and a timer callback may call defer.reject instead   *)
(* of doing its work.  The library turns both into a rejected promise, and *)
(* a .then without a rejection handler hands the rejection on to its own   *)
(* promise without calling its handler.                                    *)
(***************************************************************************)
\* the promise rejected with a reason
Rejected(reason) == Val("rejected", 0, reason)

\* begin or incrementAsync throws as it starts: the library catches it and
\* resolves the promise of the .then (of the fcall) with a rejection
Throw(r) ==
    /\ pc[r].at \in {"L3", "L12"}
    /\ pc' = [pc EXCEPT ![r] = At("ret", @.k, @.d, Rejected("error"))]
    /\ Log(r, "fail", IF pc[r].at = "L3" THEN "begin" ELSE "incrementAsync",
           pc[r].k, Rejected("error"))
    /\ UNCHANGED <<flush, prog, out, timers, tasks, deferreds, invs, turn>>

\* the timer callback calls defer.reject(error) and ends
RejectInCallback(r) ==
    /\ pc[r].at = "L14"
    /\ Resolve(r, invs[r][pc[r].k].defer, Rejected("error"))
    /\ pc' = [pc EXCEPT ![r] = Idle]
    /\ Log(r, "fail", "callback", pc[r].k, Rejected("error"))
    /\ UNCHANGED <<flush, prog, out, timers, invs, turn>>

\* (a variant that calls the handler with the rejection as if it were a value)
MutDispatchRejected(r) ==
    /\ pc[r].at = "idle" /\ tasks[r] # <<>>
    /\ Head(tasks[r]).self.kind = "rejected"
    /\ LET t == Head(tasks[r])
           k == IF t.msg.fn = "incrementAsync" THEN Len(invs[r]) + 1 ELSE 0
       IN /\ pc' = [pc EXCEPT ![r] = At(Entry(t.msg.fn), k, t.msg.d, t.self)]
          /\ invs' = [invs EXCEPT ![r] = IF k = 0 THEN @ ELSE Append(@, Closure(t.self, 0))]
          /\ hist' = [hist EXCEPT ![r] =
                         Append(@, Event("call", t.msg.fn, k, t.self, TickTurn(r)))]
    /\ tasks' = [tasks EXCEPT ![r] = Tail(@)]
    /\ Ticked(r)
    /\ UNCHANGED <<prog, out, timers, deferreds>>

\* A tick whose receiver is a rejected promise: the handler is not called and
\* the promise of the .then is rejected with the same reason.
DispatchRejected(r) ==
    /\ pc[r].at = "idle" /\ tasks[r] # <<>>
    /\ Head(tasks[r]).self.kind = "rejected"
    /\ LET t == Head(tasks[r])
           d == t.msg.d
       IN IF deferreds[r][d].resolved
          THEN /\ tasks' = [tasks EXCEPT ![r] = Tail(@)]
               /\ UNCHANGED deferreds
          ELSE /\ deferreds' = [deferreds EXCEPT ![r] = Become(@, d, t.self)]
               /\ tasks' = [tasks EXCEPT ![r] = Tail(@) \o Forwarded(deferreds[r], d, t.self)]
    /\ Ticked(r)
    /\ UNCHANGED <<prog, out, pc, timers, invs, hist>>

StepFail(r) ==
    \/ Step(r)
    \/ Throw(r)
    \/ RejectInCallback(r)
    \/ DispatchRejected(r)

NextFail == StepFail(1)

\* one execution of the script in which a step may fail
SpecFail == Init /\ [][NextFail]_vars

\* the deferred of the promise that the chain of index.js:22-26 returns
ChainDeferred == Len(Handlers) + 1

\* the places in the history of a run where a step failed
Failures(r) == {j \in 1..Len(hist[r]) : hist[r][j].ev = "fail"}

\* C17: if a step of the chain fails (its handler throws or its promise is
\* rejected) the chain aborts at the first failure: no later handler is
\* called, end is never emitted, and once the run is at rest the promise
\* returned by the chain is rejected with the failure.
C17_AbortOnFirstFailure ==
    \A r \in Runs : Failures(r) # {} =>
        /\ Cardinality(Failures(r)) = 1
        /\ \A f \in Failures(r) : \A j \in 1..Len(hist[r]) :
              (j > f /\ hist[r][j].ev = "call") => hist[r][j].fn = "callback"
        /\ "end" \notin Lines(r)
        /\ IsPrefix(out[r], Expected)
        /\ Terminal(r) =>
              /\ deferreds[r][ChainDeferred].resolved
              /\ deferreds[r][ChainDeferred].resolvedPromise = Rejected("error")

C17_Witness ==
    /\ Terminal(1)
    /\ \E f \in Failures(1) : hist[1][f].fn = "callback" /\ hist[1][f].k = 2
    /\ out[1] = <<"begin", "1">>
    /\ deferreds[1][ChainDeferred].resolvedPromise = Rejected("error")

\* what the invocations of incrementAsync own, in one state: deferreds of
\* their own, a timer callback that has run and resolved at most once, a copy
\* of i that is the argument until its own i++ and the argument plus one ever
\* after, and a promise that keeps the value it was fulfilled with
OwnState(r) ==
    /\ \A a, b \in 1..Len(invs[r]) :
          (a # b /\ invs[r][a].defer # 0 /\ invs[r][b].defer # 0)
              => invs[r][a].defer # invs[r][b].defer
    /\ \A k \in 1..Len(invs[r]) :
          /\ invs[r][k].defer # 0 => invs[r][k].defer > ChainDeferred
          /\ Cardinality(EventsOf(r, "call", "incrementAsync", k)) = 1
          /\ Cardinality(EventsOf(r, "call", "callback", k)) <= 1
          /\ Cardinality(EventsOf(r, "increment", "callback", k)) <= 1
          /\ Cardinality(EventsOf(r, "resolve", "callback", k)) <= 1
          /\ \A c \in EventsOf(r, "call", "incrementAsync", k) :
                invs[r][k].i =
                    IF EventsOf(r, "increment", "callback", k) = {}
                    THEN hist[r][c].v
                    ELSE PostIncrement(hist[r][c].v)
          /\ \A j \in EventsOf(r, "resolve", "callback", k) :
                /\ deferreds[r][invs[r][k].defer].resolved
                /\ deferreds[r][invs[r][k].defer].resolvedPromise = hist[r][j].v
                /\ hist[r][j].v = invs[r][k].i
          /\ Terminal(r) =>
                /\ Cardinality(EventsOf(r, "call", "callback", k)) = 1
                /\ Cardinality(EventsOf(r, "resolve", "callback", k)) = 1

\* what one step of the program leaves alone: a copy of i changes only in
\* the i++ of its own invocation, a deferred that is resolved stays as it is
OwnFrame(r) ==
    /\ \A k \in 1..Len(invs[r]) :
          invs'[r][k].i # invs[r][k].i => (pc[r].at = "L14" /\ pc[r].k = k)
    /\ \A d \in 1..Len(deferreds[r]) :
          deferreds[r][d].resolved => deferreds'[r][d] = deferreds[r][d]

\* C21: each invocation of incrementAsync has a deferred of its own and a
\* copy of i of its own: its timer callback runs exactly once and calls
\* defer.resolve exactly once, its i++ changes only its own copy, and the
\* value an earlier promise of the chain was fulfilled with never changes.
C21_OwnDeferredAndCounter ==
    /\ [](\A r \in Runs : OwnState(r))
    /\ [][\A r \in Runs : OwnFrame(r)]_vars

C21_Witness ==
    /\ pc[1].at = "L15" /\ pc[1].k = 2
    /\ invs[1][1].i = Num(1) /\ invs[1][2].i = Num(2)
    /\ invs[1][1].defer # invs[1][2].defer
    /\ deferreds[1][invs[1][1].defer].resolvedPromise = Num(1)
====
